---------------------------- MODULE Spec2Model ----------------------------
(***************************************************************************)
(* Model of the Kafka log-writer backend, src/src/KafkaWriter.cc.          *)
(*                                                                         *)
(* One KafkaWriter instance is driven by one host thread.  Two other       *)
(* parties act concurrently with it: the script-land thread that owns the  *)
(* shared BifConst::Kafka settings, and the broker client's background     *)
(* threads that deliver queued messages.  DoInit, DoWrite, DoFlush,        *)
(* DoHeartbeat, DoSetBuf and DoRotate are one action each; DoFinish is     *)
(* split at its reads of the queue length, because the broker client       *)
(* changes that length between them.                                       *)
(*                                                                         *)
(* The host calls DoInit first and once.  Nothing in the writer stops it   *)
(* from calling any other handler afterwards, whatever DoInit returned and *)
(* whether or not DoFinish ran, so the model lets it.                      *)
(***************************************************************************)
EXTENDS Integers, Sequences, FiniteSets, TLC

VARIABLES
    shared,           \* BifConst::Kafka::*, the script-land settings
    at_construction,  \* history: value of shared when the constructor ran
    tag_json,         \* member: thread-local copy of tag_json
    topic_name,       \* member: thread-local copy of topic_name
    kafka_conf,       \* member: thread-local copy of kafka_conf
    formatter,        \* member pointer: "NULL", "JSON", "TaggedJSON", "freed"
    producer,         \* member pointer: "NULL", "live", "freed"
    topic,            \* member pointer: "NULL", "live", "freed"
    topic_of,         \* name the topic handle was created for
    conf,             \* member: pairs applied to the global RdKafka::Conf
    outq,             \* the broker client's outbound queue length
    pc,               \* position of the host thread
    op,               \* handler that is running or ran last
    ret,              \* value the last handler returned ("none" before)
    calls,            \* library calls made by the running / last handler
    errors,           \* Error(...) messages of the running / last handler
    infos,            \* Info(...) messages of the running / last handler
    path,             \* DoInit argument: info.path
    debug,            \* DoInit local: debug
    init_ret,         \* what DoInit returned ("none" before it ran)
    success,          \* DoFinish local
    waited,           \* DoFinish local
    max_wait,         \* DoFinish local
    q_loop,           \* DoFinish: outq_len() read by the loop test
    q_decide,         \* DoFinish: outq_len() read by the success test
    resp,             \* DoWrite local: result of produce
    nwrites,          \* history: DoWrite calls so far
    nfailed,          \* history: DoWrite calls whose produce failed
    nfinish,          \* history: DoFinish calls so far
    nmut,             \* history: mutations of shared so far
    ndelete,          \* history: deletes applied to a non-null producer
    fault             \* undefined behaviour met so far ("none" if none)

vars == << shared, at_construction, tag_json, topic_name, kafka_conf,
           formatter, producer, topic, topic_of, conf, outq, pc, op, ret,
           calls, errors, infos, debug, init_ret, success, waited,
           max_wait, q_loop, q_decide, resp, nwrites, nfailed, nfinish, nmut,
           ndelete, fault, path >>

-----------------------------------------------------------------------------
(* Bounds of the model.                                                    *)

MaxQueue == 1
MaxWrites == 2
MaxFinish == 2
MaxMutations == 1

\* Entries kept in calls: a handler's later library calls are not recorded.
MaxLog == 16

\* Width of the machine type int in the model (the builds' is 32): what
\* DoFinish does depends on max_wait relative to the greatest int only.
IntBits == 13

IntMax == 2 ^ (IntBits - 1) - 1
IntMin == -(2 ^ (IntBits - 1))

(* Program constant: int poll_interval = 1000.                             *)
poll_interval == 1000

-----------------------------------------------------------------------------
(* Input domains.                                                          *)

TopicNames == {"", "bro"}
Paths == {"conn", "http"}
DebugLevels == {"", "all", "nosuchctx"}
MaxWaits == {0, 1500, 2000}

\* std::map iterates its keys in ascending order.
KeyOrder == << "batch.num.messages", "no.such.property" >>

ConfMaps ==
    { <<>>,
      ("batch.num.messages" :> "10"),
      ("batch.num.messages" :> "10") @@ ("no.such.property" :> "1"),
      ("batch.num.messages" :> "ten") @@ ("no.such.property" :> "1") }

Settings ==
    [ tag_json : BOOLEAN, topic_name : TopicNames, kafka_conf : ConfMaps,
      debug : DebugLevels, max_wait_on_shutdown : MaxWaits ]

\* Settings whose maximum wait is near the greatest int: the last value
\* for which waited + poll_interval stays an int, the next one, and IntMax.
LastSafeWait == IntMax - (IntMax % poll_interval) - 1

WideMaxWaits == {0, LastSafeWait, LastSafeWait + 1, IntMax}

WideSettings ==
    [ tag_json : {FALSE}, topic_name : {""}, kafka_conf : {<< >>},
      debug : {""}, max_wait_on_shutdown : WideMaxWaits ]


-----------------------------------------------------------------------------
(* Values the model writes into calls and errors.                          *)

Call(fn, arg, ms) == [fn |-> fn, arg |-> arg, ms |-> ms]
Err(msg, key, val, n) == [msg |-> msg, key |-> key, val |-> val, n |-> n]

\* calls with one more library call, while there is room to record it.
Log(s, c) == IF Len(s) < MaxLog THEN Append(s, c) ELSE s

\* The int that two's complement arithmetic gives for x.
Wrap(x) == ((x - IntMin) % (2 ^ IntBits)) + IntMin

\* A handler's bool result as ret holds it.
Bool(b) == IF b THEN "true" ELSE "false"

-----------------------------------------------------------------------------
(* The constructor: thread-local copies of tag_json, topic_name and        *)
(* kafka_conf; formatter, producer and topic start NULL.  There is no copy *)
(* of debug or of max_wait_on_shutdown.                                    *)

CopyTagJson(store) == store.tag_json
CopyTopicName(store) == store.topic_name
CopyKafkaConf(store) == store.kafka_conf

Constructed(settings) ==
    /\ shared \in settings
    /\ at_construction = shared
    /\ tag_json = CopyTagJson(shared)
    /\ topic_name = CopyTopicName(shared)
    /\ kafka_conf = CopyKafkaConf(shared)
    /\ formatter = "NULL"
    /\ producer = "NULL"
    /\ topic = "NULL"
    /\ topic_of = ""
    /\ conf = {}
    /\ outq = 0
    /\ pc = "idle"
    /\ op = "KafkaWriter"
    /\ ret = "none"
    /\ calls = << >>
    /\ errors = << >>
    /\ infos = << >>
    /\ path = ""
    /\ debug = ""
    /\ init_ret = "none"
    /\ success = FALSE
    /\ waited = 0
    /\ max_wait = 0
    /\ q_loop = 0
    /\ q_decide = 0
    /\ resp = "none"
    /\ nwrites = 0
    /\ nfailed = 0
    /\ nfinish = 0
    /\ nmut = 0
    /\ ndelete = 0
    /\ fault = "none"

Init == Constructed(Settings)

InitWide == Constructed(WideSettings)

-----------------------------------------------------------------------------
(* Another thread assigns one of the script-land settings.                 *)

MutateShared ==
    /\ pc # "crashed"
    /\ nmut < MaxMutations
    /\ \E s \in Settings :
         /\ s # shared
         /\ Cardinality({f \in DOMAIN s : s[f] # shared[f]}) = 1
         /\ shared' = s
    /\ nmut' = nmut + 1
    /\ UNCHANGED << at_construction, tag_json, topic_name, kafka_conf,
                    formatter, producer, topic, topic_of, conf, outq, pc, op,
                    ret, calls, errors, infos, debug, init_ret, success,
                    waited, max_wait, q_loop, q_decide, resp, nwrites,
                    nfailed, nfinish, ndelete, fault, path >>

-----------------------------------------------------------------------------
(* The broker client's background threads deliver one queued message.      *)

BrokerDeliver ==
    /\ pc # "crashed"
    /\ producer = "live"
    /\ outq > 0
    /\ outq' = outq - 1
    /\ UNCHANGED << shared, at_construction, tag_json, topic_name,
                    kafka_conf, formatter, producer, topic, topic_of, conf,
                    pc, op, ret, calls, errors, infos, debug, init_ret,
                    success, waited, max_wait, q_loop, q_decide, resp,
                    nwrites, nfailed, nfinish, nmut, ndelete, fault, path >>

-----------------------------------------------------------------------------
(* DoInit.                                                                 *)

\* RdKafka::Conf::set: unknown property names and malformed values are
\* rejected.
ConfSet(key, val) ==
    IF key = "no.such.property" THEN "CONF_UNKNOWN"
    ELSE IF key = "batch.num.messages" /\ val # "10" THEN "CONF_INVALID"
    ELSE IF key = "debug" /\ val # "all" THEN "CONF_INVALID"
    ELSE "CONF_OK"

\* The loop over kafka_conf from the i-th key on: the pairs set so far, and
\* the pair at which the loop returned false, if any.
RECURSIVE ApplyFrom(_, _, _)
ApplyFrom(m, i, applied) ==
    IF i > Len(KeyOrder)
    THEN [ok |-> TRUE, applied |-> applied, key |-> "", val |-> ""]
    ELSE LET key == KeyOrder[i] IN
         IF key \notin DOMAIN m
         THEN ApplyFrom(m, i + 1, applied)
         ELSE IF ConfSet(key, m[key]) # "CONF_OK"
              THEN [ok |-> FALSE, applied |-> applied,
                    key |-> key, val |-> m[key]]
              ELSE ApplyFrom(m, i + 1, Append(applied, << key, m[key] >>))

\* Mutant: the result of Conf::set is ignored.
ApplyUserSettings_Unchecked(m) ==
    LET keys == SelectSeq(KeyOrder, LAMBDA k : k \in DOMAIN m) IN
    [ok |-> TRUE,
     applied |-> [i \in 1..Len(keys) |-> << keys[i], m[keys[i]] >>],
     key |-> "", val |-> ""]

ApplyUserSettings(m) == ApplyFrom(m, 1, << >>)

\* The formatter DoInit allocates, from the tagging flag it reads.
NewFormatter(tag) == IF tag THEN "TaggedJSON" ELSE "JSON"

\* Mutant: the stream's path is used whatever the configured name.
ResolveTopic_AlwaysPath(name, info_path) == info_path

\* The topic the handle is created for.
ResolveTopic(name, info_path) == IF name = "" THEN info_path ELSE name

\* Mutant: the topic handle is not tested.
InitStage_NoTopicTest(params_ok, is_debug, debug_ok, producer_ok, topic_ok) ==
    IF ~params_ok THEN "param"
    ELSE IF is_debug /\ ~debug_ok THEN "debug"
    ELSE IF ~producer_ok THEN "producer"
    ELSE "ok"

\* Mutant: a rejected debug key does not end DoInit.
InitStage_DebugNotFatal(params_ok, is_debug, debug_ok, producer_ok, topic_ok) ==
    IF ~params_ok THEN "param"
    ELSE IF ~producer_ok THEN "producer"
    ELSE IF ~topic_ok THEN "topic"
    ELSE "ok"

\* How far DoInit gets: the step at which it returns false, or "ok".
InitStage(params_ok, is_debug, debug_ok, producer_ok, topic_ok) ==
    IF ~params_ok THEN "param"
    ELSE IF is_debug /\ ~debug_ok THEN "debug"
    ELSE IF ~producer_ok THEN "producer"
    ELSE IF ~topic_ok THEN "topic"
    ELSE "ok"

SetCalls(pairs) == [i \in 1..Len(pairs) |-> Call("Conf::set", pairs[i][1], -1)]

DoInit(info_path, producer_ok, topic_ok) ==
    /\ pc = "idle"
    /\ init_ret = "none"
    /\ LET name     == ResolveTopic(topic_name, info_path)
           dbg      == shared.debug
           is_debug == dbg # ""
           r        == ApplyUserSettings(kafka_conf)
           debug_ok == ConfSet("debug", dbg) = "CONF_OK"
           stage    == InitStage(r.ok, is_debug, debug_ok, producer_ok,
                                 topic_ok)
           tried    == IF r.ok THEN r.applied
                       ELSE Append(r.applied, << r.key, r.val >>)
           dbgset   == IF stage # "param" /\ is_debug
                       THEN << Call("Conf::set", "debug", -1) >> ELSE << >>
           pcreate  == IF stage \in {"producer", "topic", "ok"}
                       THEN << Call("Producer::create", "", -1) >> ELSE << >>
           tcreate  == IF stage \in {"topic", "ok"}
                       THEN << Call("Topic::create", name, -1) >> ELSE << >>
       IN
       /\ path' = info_path
       /\ topic_name' = name
       /\ formatter' = NewFormatter(shared.tag_json)
       /\ debug' = dbg
       /\ conf' = { r.applied[i] : i \in 1..Len(r.applied) }
                    \cup (IF dbgset # << >> /\ debug_ok
                          THEN { << "debug", dbg >> } ELSE {})
       /\ producer' = IF pcreate # << >> /\ producer_ok
                      THEN "live" ELSE "NULL"
       /\ topic' = IF tcreate # << >> /\ topic_ok THEN "live" ELSE "NULL"
       /\ topic_of' = IF tcreate # << >> /\ topic_ok THEN name ELSE ""
       /\ calls' = SetCalls(tried) \o dbgset \o pcreate \o tcreate
       /\ errors' =
            CASE stage = "param" ->
                   << Err("Failed to set", r.key, r.val, -1) >>
              [] stage = "debug" ->
                   << Err("Failed to set", "debug", dbg, -1) >>
              [] stage = "producer" ->
                   << Err("Failed to create producer", "", "", -1) >>
              [] stage = "topic" ->
                   << Err("Failed to create topic handle", "", "", -1) >>
              [] OTHER -> << >>
       /\ infos' = << IF is_debug THEN "Debug is turned on"
                                   ELSE "Debug is turned off" >>
                    \o (IF stage = "ok" /\ is_debug
                        THEN << "Successfully created producer" >> ELSE << >>)
       /\ ret' = Bool(stage = "ok")
       /\ init_ret' = Bool(stage = "ok")
    /\ op' = "DoInit"
    /\ UNCHANGED << shared, at_construction, tag_json, kafka_conf, outq, pc,
                    success, waited, max_wait, q_loop, q_decide, resp,
                    nwrites, nfailed, nfinish, nmut, ndelete, fault >>

-----------------------------------------------------------------------------
(* Use of the member pointers.  Dereferencing a null pointer ends the      *)
(* process; dereferencing a pointer whose object was deleted either ends   *)
(* the process or goes on with the stale object.                           *)

Outcomes(ptrs) ==
    IF "NULL" \in ptrs THEN {"crash"}
    ELSE IF "freed" \in ptrs THEN {"crash", "proceed"}
    ELSE {"proceed"}

FaultOf(ptrs) ==
    IF "NULL" \in ptrs THEN "null_deref"
    ELSE IF "freed" \in ptrs THEN "use_after_free"
    ELSE fault

-----------------------------------------------------------------------------
(* DoWrite.                                                                *)

\* RdKafka::Producer::produce on a queue of length q.
Produce(q, too_large) ==
    IF too_large THEN "ERR_MSG_SIZE_TOO_LARGE"
    ELSE IF q >= MaxQueue THEN "ERR__QUEUE_FULL"
    ELSE "ERR_NO_ERROR"

\* Mutant: the event loop is polled whatever produce returned.
WritePolls_Always(r) == << Call("poll", "", 0) >>

\* The library calls of DoWrite after produce returned r.
WritePolls(r) ==
    IF r = "ERR_NO_ERROR" THEN << Call("poll", "", 0) >> ELSE << >>

WriteErrors(r) ==
    IF r = "ERR_NO_ERROR" THEN << >>
    ELSE << Err("Kafka send failed", "", r, -1) >>

\* Mutant: a failed submission fails the write.
WriteReturn_FailOnError(r) == r = "ERR_NO_ERROR"

WriteReturn(r) == TRUE

DoWrite(too_large) ==
    /\ pc = "idle"
    /\ init_ret # "none"
    /\ nwrites < MaxWrites
    /\ op' = "DoWrite"
    /\ nwrites' = nwrites + 1
    /\ infos' = << >>
    /\ fault' = FaultOf({formatter, producer, topic})
    /\ \E o \in Outcomes({formatter, producer, topic}) :
         IF o = "crash"
         THEN /\ pc' = "crashed"
              /\ ret' = "none"
              /\ calls' = << >>
              /\ errors' = << >>
              /\ UNCHANGED << resp, outq, nfailed >>
         ELSE LET r == Produce(outq, too_large) IN
              /\ resp' = r
              /\ outq' = IF r = "ERR_NO_ERROR" THEN outq + 1 ELSE outq
              /\ calls' = << Call("produce", topic_of, -1) >> \o WritePolls(r)
              /\ errors' = WriteErrors(r)
              /\ nfailed' = IF r = "ERR_NO_ERROR" THEN nfailed ELSE nfailed + 1
              /\ ret' = Bool(WriteReturn(r))
              /\ pc' = "idle"
    /\ UNCHANGED << shared, at_construction, tag_json, topic_name,
                    kafka_conf, formatter, producer, topic, topic_of, conf,
                    debug, init_ret, success, waited, max_wait, q_loop,
                    q_decide, nfinish, nmut, ndelete, path >>

-----------------------------------------------------------------------------
(* DoSetBuf, DoFlush, DoRotate, DoHeartbeat.                               *)

\* Mutant: the toggle answers with the mode it was given.
SetBufReturn_Enabled(enabled) == enabled

\* // no change in behavior
\* return true;
SetBufReturn(enabled) == TRUE

DoSetBuf(enabled) ==
    /\ pc = "idle"
    /\ init_ret # "none"
    /\ op' = "DoSetBuf"
    /\ ret' = Bool(SetBufReturn(enabled))
    /\ calls' = << >>
    /\ errors' = << >>
    /\ infos' = << >>
    /\ UNCHANGED << shared, at_construction, tag_json, topic_name,
                    kafka_conf, formatter, producer, topic, topic_of, conf,
                    outq, pc, debug, init_ret, success, waited, max_wait,
                    q_loop, q_decide, resp, nwrites, nfailed, nfinish, nmut,
                    ndelete, fault, path >>

\* producer->poll(0); return true;
DoFlush ==
    /\ pc = "idle"
    /\ init_ret # "none"
    /\ op' = "DoFlush"
    /\ errors' = << >>
    /\ infos' = << >>
    /\ fault' = FaultOf({producer})
    /\ \E o \in Outcomes({producer}) :
         IF o = "crash"
         THEN /\ pc' = "crashed"
              /\ ret' = "none"
              /\ calls' = << >>
         ELSE /\ pc' = "idle"
              /\ ret' = "true"
              /\ calls' = << Call("poll", "", 0) >>
    /\ UNCHANGED << shared, at_construction, tag_json, topic_name,
                    kafka_conf, formatter, producer, topic, topic_of, conf,
                    outq, debug, init_ret, success, waited, max_wait, q_loop,
                    q_decide, resp, nwrites, nfailed, nfinish, nmut, ndelete,
                    path >>

\* producer->poll(0); return true;
DoHeartbeat ==
    /\ pc = "idle"
    /\ init_ret # "none"
    /\ op' = "DoHeartbeat"
    /\ errors' = << >>
    /\ infos' = << >>
    /\ fault' = FaultOf({producer})
    /\ \E o \in Outcomes({producer}) :
         IF o = "crash"
         THEN /\ pc' = "crashed"
              /\ ret' = "none"
              /\ calls' = << >>
         ELSE /\ pc' = "idle"
              /\ ret' = "true"
              /\ calls' = << Call("poll", "", 0) >>
    /\ UNCHANGED << shared, at_construction, tag_json, topic_name,
                    kafka_conf, formatter, producer, topic, topic_of, conf,
                    outq, debug, init_ret, success, waited, max_wait, q_loop,
                    q_decide, resp, nwrites, nfailed, nfinish, nmut, ndelete,
                    path >>

\* return FinishedRotation(); the host's answer is its own.
DoRotate(finished) ==
    /\ pc = "idle"
    /\ init_ret # "none"
    /\ op' = "DoRotate"
    /\ ret' = Bool(finished)
    /\ calls' = << Call("FinishedRotation", "", -1) >>
    /\ errors' = << >>
    /\ infos' = << >>
    /\ UNCHANGED << shared, at_construction, tag_json, topic_name,
                    kafka_conf, formatter, producer, topic, topic_of, conf,
                    outq, pc, debug, init_ret, success, waited, max_wait,
                    q_loop, q_decide, resp, nwrites, nfailed, nfinish, nmut,
                    ndelete, fault, path >>

-----------------------------------------------------------------------------
(* DoFinish, in the steps between which the queue length can change.       *)

\* while (producer->outq_len() > 0 && waited <= max_wait)
KeepWaiting(q, w, m) == q > 0 /\ w <= m

\* Mutant: the comparison accepts any length.
AllDelivered_AnyLength(q) == q >= 0

\* if (producer->outq_len() == 0) success = true;
AllDelivered(q) == q = 0

\* delete p;
Delete(p) == IF p = "NULL" THEN "NULL" ELSE "freed"

DoFinish_Begin ==
    /\ pc = "idle"
    /\ init_ret # "none"
    /\ nfinish < MaxFinish
    /\ op' = "DoFinish"
    /\ nfinish' = nfinish + 1
    /\ ret' = "none"
    /\ calls' = << >>
    /\ errors' = << >>
    /\ infos' = << >>
    /\ success' = FALSE
    /\ waited' = 0
    /\ max_wait' = shared.max_wait_on_shutdown
    /\ q_loop' = 0
    /\ q_decide' = 0
    /\ pc' = "finish_loop"
    /\ UNCHANGED << shared, at_construction, tag_json, topic_name,
                    kafka_conf, formatter, producer, topic, topic_of, conf,
                    outq, debug, init_ret, resp, nwrites, nfailed, nmut,
                    ndelete, fault, path >>

DoFinish_LoopTest ==
    /\ pc = "finish_loop"
    /\ fault' = FaultOf({producer})
    /\ \E o \in Outcomes({producer}) :
         IF o = "crash"
         THEN /\ pc' = "crashed"
              /\ UNCHANGED << q_loop, calls >>
         ELSE /\ q_loop' = outq
              /\ calls' = Log(calls, Call("outq_len", "", -1))
              /\ pc' = IF KeepWaiting(outq, waited, max_wait)
                       THEN "finish_poll" ELSE "finish_decide"
    /\ UNCHANGED << shared, at_construction, tag_json, topic_name,
                    kafka_conf, formatter, producer, topic, topic_of, conf,
                    outq, op, ret, errors, infos, debug, init_ret, success,
                    waited, max_wait, q_decide, resp, nwrites, nfailed,
                    nfinish, nmut, ndelete, path >>

\* producer->poll(poll_interval); waited += poll_interval;
\* A sum that is no int is undefined: the build wraps it or traps.
DoFinish_Poll ==
    /\ pc = "finish_poll"
    /\ \E o \in Outcomes({producer}) :
         IF o = "crash"
         THEN /\ pc' = "crashed"
              /\ fault' = FaultOf({producer})
              /\ UNCHANGED << waited, calls >>
         ELSE /\ calls' = Log(calls, Call("poll", "", poll_interval))
              /\ IF waited + poll_interval <= IntMax
                 THEN /\ waited' = waited + poll_interval
                      /\ fault' = FaultOf({producer})
                      /\ pc' = "finish_loop"
                 ELSE /\ fault' = "int_overflow"
                      /\ \E build \in {"wrap", "trap"} :
                           IF build = "wrap"
                           THEN /\ waited' = Wrap(waited + poll_interval)
                                /\ pc' = "finish_loop"
                           ELSE /\ waited' = waited
                                /\ pc' = "crashed"
    /\ UNCHANGED << shared, at_construction, tag_json, topic_name,
                    kafka_conf, formatter, producer, topic, topic_of, conf,
                    outq, op, ret, errors, infos, debug, init_ret, success,
                    max_wait, q_loop, q_decide, resp, nwrites, nfailed,
                    nfinish, nmut, ndelete, path >>

DoFinish_Decide ==
    /\ pc = "finish_decide"
    /\ fault' = FaultOf({producer})
    /\ \E o \in Outcomes({producer}) :
         IF o = "crash"
         THEN /\ pc' = "crashed"
              /\ UNCHANGED << q_decide, calls, success >>
         ELSE /\ q_decide' = outq
              /\ calls' = Log(calls, Call("outq_len", "", -1))
              /\ success' = AllDelivered(outq)
              /\ pc' = IF AllDelivered(outq)
                       THEN "finish_cleanup" ELSE "finish_report"
    /\ UNCHANGED << shared, at_construction, tag_json, topic_name,
                    kafka_conf, formatter, producer, topic, topic_of, conf,
                    outq, op, ret, errors, infos, debug, init_ret, waited,
                    max_wait, q_loop, resp, nwrites, nfailed, nfinish, nmut,
                    ndelete, path >>

\* Error(Fmt("Unable to deliver %0d message(s)", producer->outq_len()));
DoFinish_Report ==
    /\ pc = "finish_report"
    /\ fault' = FaultOf({producer})
    /\ \E o \in Outcomes({producer}) :
         IF o = "crash"
         THEN /\ pc' = "crashed"
              /\ UNCHANGED << calls, errors >>
         ELSE /\ calls' = Log(calls, Call("outq_len", "", -1))
              /\ errors' = Append(errors,
                                  Err("Unable to deliver", "", "", outq))
              /\ pc' = "finish_cleanup"
    /\ UNCHANGED << shared, at_construction, tag_json, topic_name,
                    kafka_conf, formatter, producer, topic, topic_of, conf,
                    outq, op, ret, infos, debug, init_ret, success, waited,
                    max_wait, q_loop, q_decide, resp, nwrites, nfailed,
                    nfinish, nmut, ndelete, path >>

\* delete topic; delete producer; delete formatter; return success;
\* Deleting an object a second time ends the process or goes unnoticed.
DoFinish_Cleanup ==
    /\ pc = "finish_cleanup"
    /\ topic' = Delete(topic)
    /\ producer' = Delete(producer)
    /\ formatter' = Delete(formatter)
    /\ ndelete' = IF producer = "NULL" THEN ndelete ELSE ndelete + 1
    /\ calls' = Log(Log(Log(calls, Call("delete", "topic", -1)),
                         Call("delete", "producer", -1)),
                     Call("delete", "formatter", -1))
    /\ IF "freed" \in {topic, producer, formatter}
       THEN /\ fault' = "double_free"
            /\ \E o \in {"crash", "proceed"} :
                 /\ pc' = IF o = "crash" THEN "crashed" ELSE "idle"
                 /\ ret' = IF o = "crash" THEN "none" ELSE Bool(success)
       ELSE /\ fault' = fault
            /\ pc' = "idle"
            /\ ret' = Bool(success)
    /\ UNCHANGED << shared, at_construction, tag_json, topic_name,
                    kafka_conf, topic_of, conf, outq, op, errors, infos,
                    debug, init_ret, success, waited, max_wait, q_loop,
                    q_decide, resp, nwrites, nfailed, nfinish, nmut, path >>

-----------------------------------------------------------------------------

Next ==
    \/ BrokerDeliver
    \/ \E info_path \in Paths, producer_ok \in BOOLEAN, topic_ok \in BOOLEAN :
         DoInit(info_path, producer_ok, topic_ok)
    \/ \E too_large \in BOOLEAN : DoWrite(too_large)
    \/ \E enabled \in BOOLEAN : DoSetBuf(enabled)
    \/ DoFlush
    \/ DoHeartbeat
    \/ \E finished \in BOOLEAN : DoRotate(finished)
    \/ DoFinish_Begin
    \/ DoFinish_LoopTest
    \/ DoFinish_Poll
    \/ DoFinish_Decide
    \/ DoFinish_Report
    \/ DoFinish_Cleanup

Spec == Init /\ [][Next]_vars

\* The same, with the script-land thread assigning settings concurrently.
NextShared == Next \/ MutateShared

SpecShared == Init /\ [][NextShared]_vars

\* Once DoFinish is entered the host thread runs it on: every poll returns
\* after its timeout at the latest.
DoFinish_Step ==
    \/ DoFinish_LoopTest
    \/ DoFinish_Poll
    \/ DoFinish_Decide
    \/ DoFinish_Report
    \/ DoFinish_Cleanup

\* The writer with a maximum wait near the greatest int.
SpecWide == InitWide /\ [][Next]_vars /\ WF_vars(DoFinish_Step)

-----------------------------------------------------------------------------
(* Vocabulary of the properties.                                           *)

\* Handler o has returned and no other handler was entered since.
Returned(o) == op = o /\ pc = "idle" /\ ret # "none"

\* The polls among the library calls of the running / last handler.
Polls == SelectSeq(calls, LAMBDA c : c.fn = "poll")

RECURSIVE SumMs(_)
SumMs(s) == IF s = << >> THEN 0 ELSE Head(s).ms + SumMs(Tail(s))

\* The key/value pairs of the snapshot that RdKafka::Conf::set rejects.
RejectedPairs ==
    { k \in DOMAIN kafka_conf : ConfSet(k, kafka_conf[k]) # "CONF_OK" }

\* The first DoFinish of a writer whose DoInit succeeded: it is entered with
\* topic, producer and formatter live.
FirstFinish == op = "DoFinish" /\ nfinish = 1 /\ init_ret = "true"

Released ==
    /\ topic \notin {"live"}
    /\ producer \notin {"live"}
    /\ formatter \notin {"JSON", "TaggedJSON"}

-----------------------------------------------------------------------------
(* C1 (as amended): when the first DoFinish after a successful DoInit      *)
(* returns, it returned success exactly if the queue length it read after  *)
(* the drain loop was zero (so also when the queue was still nonzero at    *)
(* the moment the wait exceeded the bound, but drained before that read),  *)
(* failure otherwise, and topic, producer and formatter are released.      *)
C1_FinishResult ==
    (FirstFinish /\ pc = "idle") =>
        /\ ret \in {"true", "false"}
        /\ (ret = "true") <=> (q_decide = 0)
        /\ q_loop = 0 => ret = "true"
        /\ Released

\* DoFinish gave up waiting on a nonzero queue and still returned success.
C1_Witness ==
    /\ FirstFinish /\ pc = "idle"
    /\ nwrites > 0
    /\ q_loop > 0 /\ waited > max_wait
    /\ ret = "true" /\ Released

\* C1 as stated: success if the loop saw the queue empty, failure if the
\* wait exceeded the bound while the queue was nonzero, handles released.
C1_Original ==
    (FirstFinish /\ pc = "idle") =>
        /\ q_loop = 0 => ret = "true"
        /\ (q_loop > 0 /\ waited > max_wait) => ret = "false"
        /\ Released

-----------------------------------------------------------------------------
(* C2: the poll timeouts DoFinish has issued never add up to more than     *)
(* max_wait_on_shutdown.                                                   *)
C2_WaitWithinBound ==
    op = "DoFinish" => SumMs(Polls) <= max_wait

-----------------------------------------------------------------------------
(* C3: after DoInit on a snapshot with a rejected broker parameter, DoInit *)
(* returned false, its one error names a rejected key with its value, and  *)
(* producer and topic are null.                                            *)
C3_RejectedParamFailsInit ==
    (op = "DoInit" /\ RejectedPairs # {}) =>
        /\ ret = "false"
        /\ Len(errors) = 1
        /\ errors[1].msg = "Failed to set"
        /\ errors[1].key \in RejectedPairs
        /\ errors[1].val = kafka_conf[errors[1].key]
        /\ producer = "NULL"
        /\ topic = "NULL"

\* The second parameter of the map is the rejected one.
C3_Witness ==
    /\ op = "DoInit" /\ ret = "false"
    /\ Cardinality(RejectedPairs) = 1
    /\ Cardinality(DOMAIN kafka_conf) = 2
    /\ producer = "NULL" /\ topic = "NULL"

-----------------------------------------------------------------------------
(* C4: when DoInit has returned true, producer and topic are non-null      *)
(* (live); and DoInit returned true only if every broker parameter was     *)
(* accepted, the debug key was accepted when debug is enabled, and the     *)
(* producer and the topic handle were created.                             *)
C4_InitSuccess ==
    /\ (op = "DoInit" /\ ret = "true") =>
          /\ producer = "live" /\ topic = "live"
          /\ init_ret = "true"
          /\ errors = << >>
          /\ Len(calls) >= 2
          /\ calls[Len(calls) - 1].fn = "Producer::create"
          /\ calls[Len(calls)] = Call("Topic::create", topic_name, -1)
    /\ init_ret = "true" =>
          /\ RejectedPairs = {}
          /\ debug # "" => ConfSet("debug", debug) = "CONF_OK"
          /\ producer # "NULL" /\ topic # "NULL"
          /\ topic_of = topic_name

\* A successful DoInit with a broker parameter and with debug enabled.
C4_Witness ==
    /\ op = "DoInit" /\ ret = "true"
    /\ kafka_conf # << >>
    /\ debug # ""
    /\ producer = "live" /\ topic = "live"

-----------------------------------------------------------------------------
(* C5: every setting DoInit and DoFinish act on has the value the shared   *)
(* store held when the constructor ran: the formatter follows the tagging  *)
(* flag of that time, DoInit's debug level and DoFinish's maximum wait are *)
(* the ones of that time, and so are the topic name and the parameter map. *)
C5_SettingsAsConstructed ==
    /\ formatter \in {"JSON", "TaggedJSON"} =>
          formatter = NewFormatter(at_construction.tag_json)
    /\ init_ret # "none" => debug = at_construction.debug
    /\ nfinish > 0 => max_wait = at_construction.max_wait_on_shutdown
    /\ kafka_conf = at_construction.kafka_conf
    /\ tag_json = at_construction.tag_json
    /\ at_construction.topic_name # "" =>
          topic_name = at_construction.topic_name

-----------------------------------------------------------------------------
(* C6: a DoWrite that returned has returned true and has submitted its     *)
(* record with one produce call, whatever earlier writes did; if the       *)
(* submission failed it emitted one error and polled nothing; and no       *)
(* DoWrite changes the producer, the topic handle or the formatter.        *)
C6_FailedWriteNotFatal ==
    /\ [](Returned("DoWrite") =>
            /\ ret = "true"
            /\ Len(SelectSeq(calls, LAMBDA c : c.fn = "produce")) = 1
            /\ calls[1] = Call("produce", topic_of, -1)
            /\ resp # "ERR_NO_ERROR" =>
                  /\ Len(errors) = 1
                  /\ errors[1].msg = "Kafka send failed"
                  /\ Polls = << >>
            /\ resp = "ERR_NO_ERROR" => errors = << >>)
    /\ [][nwrites' # nwrites =>
            UNCHANGED << formatter, producer, topic, topic_of >>]_vars

\* A write is accepted after an earlier write of the same writer failed.
C6_Witness ==
    /\ Returned("DoWrite")
    /\ fault = "none"
    /\ nfailed > 0
    /\ resp = "ERR_NO_ERROR"
    /\ calls = << Call("produce", topic_of, -1), Call("poll", "", 0) >>

-----------------------------------------------------------------------------
(* C7: DoWrite, DoFlush and DoHeartbeat poll with timeout zero and at most *)
(* once per call: DoWrite once if produce succeeded and not at all if it   *)
(* failed, DoFlush and DoHeartbeat once.                                   *)
C7_NonBlockingPolls ==
    /\ op \in {"DoWrite", "DoFlush", "DoHeartbeat"} =>
          /\ Len(Polls) <= 1
          /\ \A i \in 1..Len(Polls) : Polls[i].ms = 0
    /\ Returned("DoWrite") =>
          Len(Polls) = (IF resp = "ERR_NO_ERROR" THEN 1 ELSE 0)
    /\ (Returned("DoFlush") \/ Returned("DoHeartbeat")) => Len(Polls) = 1

\* A write refused because the queue is full, so at its greatest depth.
C7_Witness ==
    /\ Returned("DoWrite")
    /\ fault = "none"
    /\ outq = MaxQueue
    /\ resp = "ERR__QUEUE_FULL"
    /\ Polls = << >>

-----------------------------------------------------------------------------
(* C8: DoWrite, DoFlush and DoHeartbeat never use a producer, topic or     *)
(* formatter pointer that is null (no successful DoInit yet) or whose      *)
(* object DoFinish has deleted.                                            *)
C8_NoUseOutsideLifetime ==
    op \in {"DoWrite", "DoFlush", "DoHeartbeat"} =>
        fault \notin {"null_deref", "use_after_free"}

-----------------------------------------------------------------------------
(* C9: the producer is deleted at most once, and only by a DoFinish that   *)
(* has already fixed its result; a repeated DoFinish deletes nothing.      *)
C9_DestroyedOnce ==
    /\ ndelete <= 1
    /\ ndelete = 1 => nfinish >= 1
    /\ fault # "double_free"

-----------------------------------------------------------------------------
(* C10: once DoInit has returned, the producer and the topic handle are    *)
(* both live or both absent.                                               *)
C10_HandlesTogether ==
    init_ret # "none" => ((producer = "live") <=> (topic = "live"))

-----------------------------------------------------------------------------
(* C11: from the step that enters DoInit on, no field of the configuration *)
(* changes: the topic name, the broker parameter map and the tagging flag  *)
(* held by the writer, and the debug level and the maximum shutdown wait,  *)
(* which the writer does not hold and reads from the shared store.         *)
C11_ConfigurationFrozen ==
    [][init_ret' # "none" =>
          /\ UNCHANGED << topic_name, kafka_conf, tag_json >>
          /\ shared'.debug = shared.debug
          /\ shared'.max_wait_on_shutdown = shared.max_wait_on_shutdown]_vars

-----------------------------------------------------------------------------
(* C12: the topic handle DoInit creates is for the stream's path if the    *)
(* topic name copied at construction is empty, and for that name, whatever *)
(* the path, if it is not.                                                 *)
C12_TopicResolution ==
    (init_ret # "none" /\ topic # "NULL") =>
        /\ at_construction.topic_name = "" => topic_of = path
        /\ at_construction.topic_name # "" =>
              topic_of = at_construction.topic_name
        /\ op = "DoInit" =>
              calls[Len(calls)] = Call("Topic::create", topic_of, -1)

\* A configured topic name wins over a stream path that differs from it.
C12_Witness ==
    /\ op = "DoInit" /\ ret = "true"
    /\ at_construction.topic_name = "bro"
    /\ path = "http"
    /\ topic_of = "bro"

-----------------------------------------------------------------------------
(* C13: whatever the maximum wait and whatever the broker delivers, a      *)
(* DoFinish that is in its drain loop leaves the loop: it goes on to read  *)
(* the queue for its result, or the process ends.                          *)
InDrainLoop == op = "DoFinish" /\ pc \in {"finish_loop", "finish_poll"}

C13_FinishLeavesLoop == (FirstFinish /\ InDrainLoop) ~> ~InDrainLoop

-----------------------------------------------------------------------------
(* C14: a first DoFinish whose queue stays non-empty never polls more than *)
(* max_wait / 1000 + 1 times, and when it returns it has polled exactly    *)
(* that often, for more than max_wait and at most max_wait + 1000 ms; it   *)
(* returned false with one error that carries a positive count, and topic, *)
(* producer and formatter are released.                                    *)
C14_PollsOfFullWait ==
    FirstFinish =>
        /\ Len(Polls) <= max_wait \div poll_interval + 1
        /\ (Returned("DoFinish") /\ outq > 0) =>
              /\ Len(Polls) = max_wait \div poll_interval + 1
              /\ SumMs(Polls) > max_wait
              /\ SumMs(Polls) <= max_wait + poll_interval
              /\ \A i \in 1..Len(Polls) : Polls[i].ms = poll_interval
              /\ ret = "false"
              /\ Len(errors) = 1
              /\ errors[1].n > 0
              /\ Released

-----------------------------------------------------------------------------
(* C15: DoFlush, DoHeartbeat, DoSetBuf and DoRotate call no produce and    *)
(* change neither the configuration, the topic the handle is for, the      *)
(* formatter, the two handles nor the number of submitted messages;        *)
(* DoFlush, DoHeartbeat and DoSetBuf never return false, and return true   *)
(* whenever they return; DoSetBuf and DoRotate poll nothing.               *)
NoSubmit == { "DoFlush", "DoHeartbeat", "DoSetBuf", "DoRotate" }

C15_NoEffectHandlers ==
    /\ [](op \in NoSubmit =>
             \A i \in 1..Len(calls) : calls[i].fn # "produce")
    /\ [](op \in {"DoFlush", "DoHeartbeat", "DoSetBuf"} =>
             /\ ret # "false"
             /\ pc = "idle" => ret = "true")
    /\ [](op = "DoSetBuf" => pc = "idle")
    /\ [](op \in {"DoSetBuf", "DoRotate"} => Polls = << >>)
    /\ [][op' \in NoSubmit =>
             /\ UNCHANGED << tag_json, topic_name, kafka_conf, conf, debug,
                             topic_of, formatter, producer, topic >>
             /\ outq' <= outq
             /\ nwrites' = nwrites]_vars

\* A flush with a message still queued: one poll, nothing submitted.
C15_Witness ==
    /\ Returned("DoFlush")
    /\ ret = "true"
    /\ producer = "live"
    /\ outq > 0
    /\ calls = << Call("poll", "", 0) >>

-----------------------------------------------------------------------------
(* C16: DoInit calls the library in the order: one Conf::set per broker    *)
(* parameter in key order, Conf::set of the debug key if debug is enabled, *)
(* Producer::create, Topic::create.  Every call before the last one        *)
(* succeeded; DoInit returns true with no error after all of them          *)
(* succeeded, and false with exactly one error, about its last call, as    *)
(* soon as one fails.                                                      *)

\* The step of DoInit a library call belongs to.
InitRank(c) ==
    CASE c.fn = "Conf::set" /\ c.arg # "debug" -> 1
      [] c.fn = "Conf::set" /\ c.arg = "debug" -> 2
      [] c.fn = "Producer::create" -> 3
      [] c.fn = "Topic::create" -> 4
      [] OTHER -> 0

\* Whether the call succeeded, from what it was given and what it left.
InitCallOk(c) ==
    CASE InitRank(c) = 1 -> ConfSet(c.arg, kafka_conf[c.arg]) = "CONF_OK"
      [] InitRank(c) = 2 -> ConfSet("debug", debug) = "CONF_OK"
      [] InitRank(c) = 3 -> producer = "live"
      [] InitRank(c) = 4 -> topic = "live"
      [] OTHER -> FALSE

\* The error DoInit emits when the call fails.
InitCallError(c) ==
    CASE InitRank(c) = 1 ->
           Err("Failed to set", c.arg, kafka_conf[c.arg], -1)
      [] InitRank(c) = 2 -> Err("Failed to set", "debug", debug, -1)
      [] InitRank(c) = 3 -> Err("Failed to create producer", "", "", -1)
      [] OTHER -> Err("Failed to create topic handle", "", "", -1)

C16_InitFailFast ==
    op = "DoInit" =>
        LET n    == Len(calls)
            keys == SelectSeq(KeyOrder, LAMBDA k : k \in DOMAIN kafka_conf)
            sets == SelectSeq(calls, LAMBDA c : InitRank(c) = 1)
        IN
        /\ n > 0
        /\ \A i \in 1..n : InitRank(calls[i]) > 0
        /\ \A i, j \in 1..n :
              i < j => /\ InitRank(calls[i]) <= InitRank(calls[j])
                       /\ InitRank(calls[j]) > 1 =>
                             InitRank(calls[i]) < InitRank(calls[j])
        /\ Len(sets) <= Len(keys)
        /\ \A i \in 1..Len(sets) : sets[i].arg = keys[i]
        /\ \A i \in 1..(n - 1) : InitCallOk(calls[i])
        /\ ret = Bool(InitCallOk(calls[n]))
        /\ ret = "true" =>
              /\ errors = << >>
              /\ Len(sets) = Len(keys)
              /\ debug # "" <=> \E i \in 1..n : InitRank(calls[i]) = 2
              /\ InitRank(calls[n]) = 4
              /\ n > 1 /\ InitRank(calls[n - 1]) = 3
        /\ ret = "false" =>
              /\ errors = << InitCallError(calls[n]) >>
              /\ InitRank(calls[n]) < 3 => producer = "NULL"
              /\ InitRank(calls[n]) < 4 => topic = "NULL"
              /\ InitRank(calls[n]) = 2 => Len(sets) = Len(keys)
              /\ InitRank(calls[n]) = 3 =>
                    /\ Len(sets) = Len(keys)
                    /\ debug # "" <=> \E i \in 1..n : InitRank(calls[i]) = 2

\* The debug key is rejected after a broker parameter was accepted: the
\* producer is not created.
C16_Witness ==
    /\ op = "DoInit" /\ ret = "false"
    /\ kafka_conf # << >>
    /\ calls[Len(calls)] = Call("Conf::set", "debug", -1)
    /\ Len(calls) = 2
    /\ producer = "NULL"

-----------------------------------------------------------------------------
(* C17: a first DoFinish returns true exactly if the queue length it read  *)
(* after the drain loop was zero, and emits its one error exactly if it    *)
(* returns false; the count in that error is positive and is the queue     *)
(* length read after the loop, whatever the broker delivers meanwhile.     *)
C17_ReportedCount ==
    (FirstFinish /\ pc = "idle") =>
        /\ (ret = "true") <=> (q_decide = 0)
        /\ (ret = "false") <=> (Len(errors) = 1)
        /\ Len(errors) <= 1
        /\ errors # << >> =>
              /\ errors[1].n > 0
              /\ errors[1].n = q_decide

-----------------------------------------------------------------------------
(* C18: a DoFinish called after DoInit returned false without having       *)
(* created the producer does not dereference the null producer pointer.    *)
C18_FinishAfterFailedInit ==
    (op = "DoFinish" /\ init_ret = "false" /\ producer = "NULL") =>
        /\ fault # "null_deref"
        /\ pc # "crashed"

-----------------------------------------------------------------------------
(* C19: whatever int the maximum wait is, the sum waited + poll_interval   *)
(* that DoFinish is about to compute after a poll is an int, so waited     *)
(* never overflows.                                                        *)
C19_WaitedNeverOverflows ==
    /\ fault # "int_overflow"
    /\ (op = "DoFinish" /\ pc = "finish_poll") =>
          waited + poll_interval \in IntMin..IntMax

=============================================================================
